---------------------------- MODULE Spec2Model ----------------------------
(***************************************************************************)
(* Food Review Analyzer backend (food-review-analyzer/backend/app.py).     *)
(*                                                                         *)
(* Specifications over one set of variables:                               *)
(*   Spec      - the Flask process in any deployment serving a request:    *)
(*               the three lazily loaded adapters, the analysis pipeline,  *)
(*               the reviews table and the three routes.                   *)
(*   SpecStore - the same process deployed without advanced adapters,      *)
(*               serving several requests one after another.               *)
(*   SpecPipe  - the loaders, analyze_sentiment and extract_key_points     *)
(*               called one after another in one process.                  *)
(*   SpecHeur  - fallback_sentiment / analyze_sentiment applied to a       *)
(*               bounded set of input texts.                               *)
(*   SpecLoad  - several threads inside the three adapter loaders sharing  *)
(*               _model_lock (FairLoad adds the scheduler's fairness).     *)
(* Python str values are sequences of one-character strings.               *)
(***************************************************************************)
EXTENDS Integers, Sequences, FiniteSets, TLC

VARIABLES
    \* ---- process state (app.py globals, the reviews table) ----
    GEMINI_API_KEY,        \* os.getenv("GEMINI_API_KEY", None), read once
    transformersInstalled, \* whether "from transformers import pipeline" succeeds
    genaiInstalled,        \* whether "import google.generativeai" succeeds
    _sentiment_model,      \* None or the loaded pipeline
    _summary_model,        \* None or the loaded pipeline
    _gemini_client,        \* None or the configured genai module
    reviews,               \* rows of table "reviews", in insertion (id) order
    clock,                 \* last value read from datetime.utcnow
    \* ---- observation of the run (history) ----
    calls,                 \* operations performed so far
    okCount,               \* analyze-review calls answered with success
    ctorRuns,              \* per adapter: constructor executions started
    ctorOks,               \* per adapter: constructor executions that succeeded
    remoteOps,             \* genai imports / configure calls / generate calls
    submitted,             \* per stored row: the review_text the request carried
    last,                  \* the last operation: its kind, request body, steps
    sentOut,               \* what the last analyze_sentiment call did
    kpOut,                 \* what the last extract_key_points call did
    loadOut,               \* what the last direct loader call did
    resp,                  \* the last HTTP response
    \* ---- threads inside the loaders (SpecLoad) ----
    pc, tAdapter, tRet, lockHolder, building, loadCalls,
    \* ---- heuristic classifier harness (SpecHeur) ----
    hText, hOut

procVars == <<GEMINI_API_KEY, transformersInstalled, genaiInstalled,
              _sentiment_model, _summary_model, _gemini_client, reviews, clock>>
histVars == <<calls, okCount, ctorRuns, ctorOks, remoteOps, submitted, last,
              sentOut, kpOut, loadOut, resp>>
loadVars == <<pc, tAdapter, tRet, lockHolder, building, loadCalls>>
heurVars == <<hText, hOut>>
vars == <<procVars, histVars, loadVars, heurVars>>

---------------------------------------------------------------------------
(* Bounds of the model.                                                    *)
MaxCalls == 1        \* requests handled in one behaviour of Spec
MaxStoreCalls == 3   \* requests handled in one behaviour of SpecStore
MaxPipeCalls == 4    \* pipeline calls made in one behaviour of SpecPipe
MaxLoadCalls == 3    \* loader calls started in one behaviour of SpecLoad
MaxChunks == 3       \* chunks concatenated into an input text of SpecHeur
NumThreads == 2      \* threads calling the loaders in SpecLoad

(* Program constants.                                                      *)
MaxPoints == 5       \* max_points=5

(* Python objects are identified by positive integers; None is 0 and is    *)
(* the only falsy one.                                                     *)
None == 0

(* An optional str (None or a str): os.getenv, dict.get, getattr results.  *)
PyNone == [none |-> TRUE, s |-> <<>>]
PyStr(s) == [none |-> FALSE, s |-> s]
falsy_str(v) == v.none \/ v.s = <<>>

Adapters == {"sentiment", "summarizer", "gemini"}

---------------------------------------------------------------------------
(* Python str operations.                                                  *)

Whitespace == {" ", "\n", "\t"}

UpperChars == <<"A","B","C","D","E","F","G","H","I","J","K","L","M",
                "N","O","P","Q","R","S","T","U","V","W","X","Y","Z">>
LowerChars == <<"a","b","c","d","e","f","g","h","i","j","k","l","m",
                "n","o","p","q","r","s","t","u","v","w","x","y","z">>

LowerChar(c) ==
    IF \E i \in 1..Len(UpperChars) : UpperChars[i] = c
    THEN LowerChars[CHOOSE i \in 1..Len(UpperChars) : UpperChars[i] = c]
    ELSE c

\* str.lower()
lower(s) == [i \in 1..Len(s) |-> LowerChar(s[i])]

\* s.startswith(w)
startswith(s, w) == Len(w) <= Len(s) /\ SubSeq(s, 1, Len(w)) = w

\* "w in s" for two strings: scan s left to right
RECURSIVE str_in(_, _)
str_in(w, s) ==
    IF Len(w) > Len(s) THEN FALSE
    ELSE IF startswith(s, w) THEN TRUE
    ELSE str_in(w, Tail(s))

RECURSIVE lstrip(_)
lstrip(s) ==
    IF s = <<>> THEN s
    ELSE IF Head(s) \in Whitespace THEN lstrip(Tail(s))
    ELSE s

RECURSIVE rstrip(_)
rstrip(s) ==
    IF s = <<>> THEN s
    ELSE IF s[Len(s)] \in Whitespace THEN rstrip(SubSeq(s, 1, Len(s) - 1))
    ELSE s

\* str.strip()
strip(s) == rstrip(lstrip(s))

\* s[:n]

\* sep.join(parts)
RECURSIVE join(_, _)
join(sep, parts) ==
    IF parts = <<>> THEN <<>>
    ELSE IF Len(parts) = 1 THEN parts[1]
    ELSE parts[1] \o sep \o join(sep, Tail(parts))

\* [x for x in parts if x]
RECURSIVE nonempty(_)
nonempty(parts) ==
    IF parts = <<>> THEN <<>>
    ELSE IF Head(parts) = <<>> THEN nonempty(Tail(parts))
    ELSE <<Head(parts)>> \o nonempty(Tail(parts))

---------------------------------------------------------------------------
(* Heuristic classifier.                                                   *)

_positive_words ==
    { <<"b", "a", "i", "k">>,
      <<"e", "n", "a", "k">>,
      <<"l", "e", "z", "a", "t">>,
      <<"m", "a", "n", "t", "a", "p">>,
      <<"b", "a", "g", "u", "s">>,
      <<"r", "e", "c", "o", "m", "m", "e", "n", "d", "e", "d">>,
      <<"r", "e", "k", "o", "m", "e", "n", "d", "a", "s", "i">>,
      <<"l", "o", "v", "e">>,
      <<"l", "i", "k", "e", "d">>,
      <<"p", "e", "n", "u", "h">>,
      <<"w", "o", "r", "t", "h">> }

_negative_words ==
    { <<"t", "i", "d", "a", "k">>,
      <<"b", "u", "r", "u", "k">>,
      <<"s", "e", "p", "i">>,
      <<"b", "u", "r", "u", "k">>,
      <<"k", "e", "c", "e", "w", "a">>,
      <<"a", "s", "i", "n">>,
      <<"p", "a", "h", "i", "t">>,
      <<"l", "a", "m", "b", "a", "t">>,
      <<"m", "a", "h", "a", "l">>,
      <<"m", "u", "r", "a", "h">>,
      <<"k", "u", "r", "a", "n", "g">> }

FALLBACK == <<"f", "a", "l", "l", "b", "a", "c", "k">>

\* sum(1 for w in words if w in text_lower)
RECURSIVE sum_present(_, _)
sum_present(words, text_lower) ==
    IF words = {} THEN 0
    ELSE LET w == CHOOSE x \in words : TRUE
         IN  (IF str_in(w, text_lower) THEN 1 ELSE 0)
             + sum_present(words \ {w}, text_lower)

\* sum(text_lower.count(w) for w in words): what a counting variant would do
RECURSIVE count_at(_, _)
count_at(w, s) ==
    IF Len(w) > Len(s) THEN 0
    ELSE (IF startswith(s, w) THEN 1 ELSE 0) + count_at(w, Tail(s))

RECURSIVE sum_occurrences(_, _)
sum_occurrences(words, text_lower) ==
    IF words = {} THEN 0
    ELSE LET w == CHOOSE x \in words : TRUE
         IN  count_at(w, text_lower) + sum_occurrences(words \ {w}, text_lower)

fallback_sentiment_occurrences(text) ==
    LET text_lower == lower(text)
        pos == sum_occurrences(_positive_words, text_lower)
        neg == sum_occurrences(_negative_words, text_lower)
    IN  IF pos > neg THEN [label |-> "positive", confidence |-> FALLBACK, raised |-> FALSE]
        ELSE IF neg > pos THEN [label |-> "negative", confidence |-> FALLBACK, raised |-> FALSE]
        ELSE [label |-> "neutral", confidence |-> FALLBACK, raised |-> FALSE]

fallback_sentiment(text) ==
    LET text_lower == lower(text)
        pos == sum_present(_positive_words, text_lower)
        neg == sum_present(_negative_words, text_lower)
    IN  IF pos > neg THEN [label |-> "positive", confidence |-> FALLBACK, raised |-> FALSE]
        ELSE IF neg > pos THEN [label |-> "negative", confidence |-> FALLBACK, raised |-> FALSE]
        ELSE [label |-> "neutral", confidence |-> FALLBACK, raised |-> FALSE]

---------------------------------------------------------------------------
(* The process state the pipeline reads and writes, as one record:         *)
(*   key, tInst, gInst  - configuration and installed packages             *)
(*   sent, summ, gem    - _sentiment_model, _summary_model, _gemini_client *)
(*   runs, oks          - constructor executions started / succeeded       *)
(*   ops                - genai imports, configure calls, generate calls   *)

\* the object a constructor run of adapter a creates
NewObj(P, a) == P.runs[a] + 1

(* Lazy loaders. ctorOk: whether the constructor (pipeline(...) or          *)
(* genai.configure) returns rather than raises.                            *)

\* a loader that remembers a failed construction would never run it twice
load_transformers_sentiment_caching(P, ctorOk) ==
    IF ~P.tInst THEN [P |-> P, ret |-> None]
    ELSE IF P.sent = None /\ P.runs["sentiment"] = 0 THEN
        LET P1 == [P EXCEPT !.runs["sentiment"] = @ + 1]
        IN  IF ctorOk
            THEN [P |-> [P1 EXCEPT !.sent = NewObj(P, "sentiment"),
                                   !.oks["sentiment"] = @ + 1],
                  ret |-> NewObj(P, "sentiment")]
            ELSE [P |-> [P1 EXCEPT !.sent = None], ret |-> None]
    ELSE [P |-> P, ret |-> P.sent]

load_transformers_sentiment(P, ctorOk) ==
    IF ~P.tInst THEN [P |-> P, ret |-> None]                  \* import raised
    ELSE IF P.sent = None THEN                                \* under _model_lock
        LET P1 == [P EXCEPT !.runs["sentiment"] = @ + 1]
        IN  IF ctorOk
            THEN [P |-> [P1 EXCEPT !.sent = NewObj(P, "sentiment"),
                                   !.oks["sentiment"] = @ + 1],
                  ret |-> NewObj(P, "sentiment")]
            ELSE [P |-> [P1 EXCEPT !.sent = None], ret |-> None]
    ELSE [P |-> P, ret |-> P.sent]

load_transformers_summarizer(P, ctorOk) ==
    IF ~P.tInst THEN [P |-> P, ret |-> None]
    ELSE IF P.summ = None THEN
        LET P1 == [P EXCEPT !.runs["summarizer"] = @ + 1]
        IN  IF ctorOk
            THEN [P |-> [P1 EXCEPT !.summ = NewObj(P, "summarizer"),
                                   !.oks["summarizer"] = @ + 1],
                  ret |-> NewObj(P, "summarizer")]
            ELSE [P |-> [P1 EXCEPT !.summ = None], ret |-> None]
    ELSE [P |-> P, ret |-> P.summ]

\* a loader without the "if not GEMINI_API_KEY" guard
load_gemini_unguarded(P, ctorOk) ==
    LET Pi == [P EXCEPT !.ops.imports = @ + 1]
    IN  IF ~P.gInst THEN [P |-> Pi, ret |-> None]
        ELSE IF P.gem = None THEN
            LET P1 == [Pi EXCEPT !.runs["gemini"] = @ + 1, !.ops.configures = @ + 1]
            IN  IF ctorOk
                THEN [P |-> [P1 EXCEPT !.gem = NewObj(P, "gemini"),
                                       !.oks["gemini"] = @ + 1],
                      ret |-> NewObj(P, "gemini")]
                ELSE [P |-> [P1 EXCEPT !.gem = None], ret |-> None]
        ELSE [P |-> Pi, ret |-> P.gem]

load_gemini(P, ctorOk) ==
    IF falsy_str(P.key) THEN [P |-> P, ret |-> None]          \* not GEMINI_API_KEY
    ELSE
    LET Pi == [P EXCEPT !.ops.imports = @ + 1]                \* import attempted
    IN  IF ~P.gInst THEN [P |-> Pi, ret |-> None]
        ELSE IF P.gem = None THEN
            LET P1 == [Pi EXCEPT !.runs["gemini"] = @ + 1, !.ops.configures = @ + 1]
            IN  IF ctorOk
                THEN [P |-> [P1 EXCEPT !.gem = NewObj(P, "gemini"),
                                       !.oks["gemini"] = @ + 1],
                      ret |-> NewObj(P, "gemini")]
                ELSE [P |-> [P1 EXCEPT !.gem = None], ret |-> None]
        ELSE [P |-> Pi, ret |-> P.gem]

---------------------------------------------------------------------------
(* Sentiment.                                                              *)

Digit == <<"0", "1", "2", "3", "4", "5", "6", "7", "8", "9">>

RECURSIVE digits(_)
digits(n) == IF n < 10 THEN <<Digit[n + 1]>>
             ELSE digits(n \div 10) \o <<Digit[(n % 10) + 1]>>

\* f"{score:.2%}" for a score given in ten-thousandths
format_percent(bp) ==
    digits(bp \div 100) \o <<".">>
        \o <<Digit[((bp % 100) \div 10) + 1], Digit[(bp % 10) + 1]>> \o <<"%">>

(* What model(text[:512])[0] does: raises, or yields a dict whose "label"   *)
(* is absent, None or a str and whose "score" is absent, a number or not a *)
(* number.                                                                 *)
ScoreRaise == [raises |-> TRUE, hasLabel |-> FALSE, label |-> PyNone,
               scoreKind |-> "absent", bp |-> 0]
ScoreOf(l, bp) == [raises |-> FALSE, hasLabel |-> TRUE, label |-> PyStr(l),
                   scoreKind |-> "num", bp |-> bp]
ScoreResults ==
    { ScoreRaise,
      ScoreOf(<<"P", "O", "S", "I", "T", "I", "V", "E">>, 9987),
      ScoreOf(<<"N", "E", "G", "A", "T", "I", "V", "E">>, 9987),
      ScoreOf(<<"L", "A", "B", "E", "L", "_", "1">>, 5000),
      [raises |-> FALSE, hasLabel |-> TRUE, label |-> PyNone,
       scoreKind |-> "num", bp |-> 9987],
      [raises |-> FALSE, hasLabel |-> FALSE, label |-> PyNone,
       scoreKind |-> "absent", bp |-> 0],
      [raises |-> FALSE, hasLabel |-> TRUE,
       label |-> PyStr(<<"P", "O", "S", "I", "T", "I", "V", "E">>),
       scoreKind |-> "str", bp |-> 0] }

\* the body of the try block of analyze_sentiment, given the model's answer
score_to_sentiment(res) ==
    IF res.raises THEN [raised |-> TRUE, label |-> "", confidence |-> <<>>]
    ELSE LET got == IF res.hasLabel THEN res.label ELSE PyStr(<<>>)   \* res.get("label", "")
         IN  IF got.none                                              \* None.lower()
             THEN [raised |-> TRUE, label |-> "", confidence |-> <<>>]
             ELSE IF res.scoreKind = "str"                            \* f"{score:.2%}"
             THEN [raised |-> TRUE, label |-> "", confidence |-> <<>>]
             ELSE LET label == lower(got.s)
                      score == IF res.scoreKind = "num" THEN res.bp ELSE 0
                  IN  IF str_in(<<"p", "o", "s">>, label)
                      THEN [raised |-> FALSE, label |-> "positive",
                            confidence |-> format_percent(score)]
                      ELSE IF str_in(<<"n", "e", "g">>, label)
                      THEN [raised |-> FALSE, label |-> "negative",
                            confidence |-> format_percent(score)]
                      ELSE [raised |-> FALSE, label |-> "neutral",
                            confidence |-> format_percent(score)]

\* a variant whose label mapping and scoring sit outside the try block
analyze_sentiment_unguarded(text, P, ctorOk, res) ==
    LET ld == load_transformers_sentiment(P, ctorOk)
        r == score_to_sentiment(res)
    IN  IF ld.ret # None
        THEN IF res.raises THEN fallback_sentiment(text) @@ [P |-> ld.P]
             ELSE [label |-> r.label, confidence |-> r.confidence,
                   raised |-> r.raised, P |-> ld.P]
        ELSE fallback_sentiment(text) @@ [P |-> ld.P]

analyze_sentiment(text, P, ctorOk, res) ==
    LET ld == load_transformers_sentiment(P, ctorOk)
        r == score_to_sentiment(res)        \* on model(text[:512])[0]
    IN  IF ld.ret # None
        THEN IF r.raised
             THEN fallback_sentiment(text) @@ [P |-> ld.P]      \* except Exception
             ELSE [label |-> r.label, confidence |-> r.confidence,
                   raised |-> FALSE, P |-> ld.P]
        ELSE fallback_sentiment(text) @@ [P |-> ld.P]

---------------------------------------------------------------------------
(* Key points.                                                             *)

Terminators == {".", "!", "?"}

RECURSIVE skip_ws(_, _)
skip_ws(s, i) == IF i <= Len(s) /\ s[i] \in Whitespace THEN skip_ws(s, i + 1) ELSE i

\* re.split(r'(?<=[.!?])\s+', s), scanning from index i with piece cur open
RECURSIVE re_split_from(_, _, _)
re_split_from(s, i, cur) ==
    IF i > Len(s) THEN <<cur>>
    ELSE IF s[i] \in Whitespace /\ i > 1 /\ s[i - 1] \in Terminators
    THEN <<cur>> \o re_split_from(s, skip_ws(s, i), <<>>)
    ELSE re_split_from(s, i + 1, Append(cur, s[i]))

re_split_sentences(s) == re_split_from(s, 1, <<>>)

\* s.split(".")
RECURSIVE split_dot_from(_, _, _)
split_dot_from(s, i, cur) ==
    IF i > Len(s) THEN <<cur>>
    ELSE IF s[i] = "." THEN <<cur>> \o split_dot_from(s, i + 1, <<>>)
    ELSE split_dot_from(s, i + 1, Append(cur, s[i]))

split_dot(s) == split_dot_from(s, 1, <<>>)

\* [x.strip() for x in parts]
strip_each(parts) == [i \in 1..Len(parts) |-> strip(parts[i])]

\* [f"- {x}" for x in parts]
bullet_each(parts) == [i \in 1..Len(parts) |-> <<"-", " ">> \o parts[i]]

\* parts[:n]
take(parts, n) == SubSeq(parts, 1, IF Len(parts) < n THEN Len(parts) ELSE n)

\* the final fallback of extract_key_points
naive_key_points(text, max_points) ==
    LET sentences == re_split_sentences(strip(text))
        picks == take(sentences, max_points)
    IN  join(<<"\n">>, bullet_each(nonempty(strip_each(picks))))

(* What gem.GenerativeModel("gemini-pro").generate_content(prompt) does:   *)
(*   raise       - the call raises (network error, quota, ...)             *)
(*   text        - a response whose .text is the str s                      *)
(*   text_none   - a response whose .text is None                           *)
(*   text_raises - a response whose .text accessor raises (blocked answer) *)
(*   no_text     - a response without a text attribute; s is str(resp)     *)
GenRaise == [kind |-> "raise", s |-> <<>>]
GenResults ==
    { GenRaise,
      [kind |-> "text", s |-> <<" ", "-", " ", "e", "n", "a", "k", "\n">>],
      [kind |-> "text_none", s |-> <<>>],
      [kind |-> "text_raises", s |-> <<>>],
      [kind |-> "no_text", s |-> <<"<", "R", "e", "s", "p", ">", " ">>] }

\* the try block of the Gemini tier: [ok, out]
gemini_tier(gen) ==
    IF gen.kind = "raise" THEN [ok |-> FALSE, out |-> PyNone]       \* generate_content raises
    ELSE IF gen.kind = "text_raises" THEN [ok |-> FALSE, out |-> PyNone]  \* getattr raises
    ELSE IF gen.kind = "text_none" THEN [ok |-> FALSE, out |-> PyNone]    \* None.strip()
    ELSE [ok |-> TRUE, out |-> PyStr(strip(gen.s))]   \* .text, or str(resp) when absent

(* What summarizer(text, max_length=80, min_length=20, do_sample=False)    *)
(* does: raises, or yields [{"summary_text": s}] (absent key: "").         *)
SummRaise == [raises |-> TRUE, s |-> <<>>]
SummResults ==
    { SummRaise,
      [raises |-> FALSE, s |-> <<" ", "E", "n", "a", "k", " ", ".", ".", "m", "a", "h", "a", "l", ".", " ">>],
      [raises |-> FALSE, s |-> <<>>] }

\* the try block of the summarizer tier: [ok, out]
summarizer_tier(sm, max_points) ==
    IF sm.raises THEN [ok |-> FALSE, out |-> PyNone]
    ELSE LET bullets == nonempty(strip_each(split_dot(sm.s)))
         IN  [ok |-> TRUE,
              out |-> PyStr(join(<<"\n">>, bullet_each(take(bullets, max_points))))]

(* extract_key_points(text, max_points=5). The result also records the     *)
(* tiers in the order they were attempted (tried), those that raised       *)
(* (failed), those whose loader returned None (unavailable) and the tier   *)
(* whose value is returned (src).                                          *)

\* a variant that returns whatever the remote tier left, without falling through
extract_key_points_no_fallthrough(text, P, gCtorOk, gen, mCtorOk, sm) ==
    LET lg == load_gemini(P, gCtorOk)
        g == gemini_tier(gen)
        Pg == [lg.P EXCEPT !.ops.generates = @ + 1]
        ls == load_transformers_summarizer(lg.P, mCtorOk)
        m == summarizer_tier(sm, MaxPoints)
        nv == PyStr(naive_key_points(text, MaxPoints))
    IN  IF lg.ret # None
        THEN [ret |-> IF g.ok THEN g.out ELSE PyStr(strip(gen.s)), raised |-> FALSE,
              P |-> Pg, tried |-> <<"gemini">>,
              failed |-> IF g.ok THEN {} ELSE {"gemini"},
              unavailable |-> {}, src |-> "gemini"]
        ELSE IF ls.ret # None /\ m.ok
        THEN [ret |-> m.out, raised |-> FALSE, P |-> ls.P,
              tried |-> <<"summarizer">>, failed |-> {},
              unavailable |-> {"gemini"}, src |-> "summarizer"]
        ELSE [ret |-> nv, raised |-> FALSE, P |-> ls.P,
              tried |-> IF ls.ret # None THEN <<"summarizer", "naive">> ELSE <<"naive">>,
              failed |-> IF ls.ret # None THEN {"summarizer"} ELSE {},
              unavailable |-> {"gemini"} \cup (IF ls.ret = None THEN {"summarizer"} ELSE {}),
              src |-> "naive"]

\* a variant that asks the summarizer even after the remote tier answered
extract_key_points_no_return(text, P, gCtorOk, gen, mCtorOk, sm) ==
    LET lg == load_gemini(P, gCtorOk)
        gemTried == lg.ret # None
        g == gemini_tier(gen)
        Pg == IF gemTried THEN [lg.P EXCEPT !.ops.generates = @ + 1] ELSE lg.P
        ls == load_transformers_summarizer(Pg, mCtorOk)
        sumTried == ls.ret # None
        m == summarizer_tier(sm, MaxPoints)
        t1 == IF gemTried THEN <<"gemini">> ELSE <<>>
        f1 == IF gemTried /\ ~g.ok THEN {"gemini"} ELSE {}
        u1 == IF gemTried THEN {} ELSE {"gemini"}
    IN  IF sumTried /\ m.ok
        THEN [ret |-> m.out, raised |-> FALSE, P |-> ls.P,
              tried |-> t1 \o <<"summarizer">>, failed |-> f1,
              unavailable |-> u1, src |-> "summarizer"]
        ELSE [ret |-> PyStr(naive_key_points(text, MaxPoints)), raised |-> FALSE, P |-> ls.P,
              tried |-> t1 \o (IF sumTried THEN <<"summarizer">> ELSE <<>>) \o <<"naive">>,
              failed |-> f1 \cup (IF sumTried THEN {"summarizer"} ELSE {}),
              unavailable |-> u1 \cup (IF sumTried THEN {} ELSE {"summarizer"}),
              src |-> "naive"]

extract_key_points(text, P, gCtorOk, gen, mCtorOk, sm) ==
    LET lg == load_gemini(P, gCtorOk)                       \* gem = load_gemini()
        gemTried == lg.ret # None                           \* if gem:
        g == gemini_tier(gen)
        Pg == IF gemTried THEN [lg.P EXCEPT !.ops.generates = @ + 1] ELSE lg.P
        t1 == IF gemTried THEN <<"gemini">> ELSE <<>>
        f1 == IF gemTried THEN {"gemini"} ELSE {}
        u1 == IF gemTried THEN {} ELSE {"gemini"}
    IN  IF gemTried /\ g.ok
        THEN [ret |-> g.out, raised |-> FALSE, P |-> Pg,    \* return kp.strip()
              tried |-> <<"gemini">>, failed |-> {}, unavailable |-> {},
              src |-> "gemini"]
        ELSE
        LET ls == load_transformers_summarizer(Pg, mCtorOk) \* summarizer = load_...()
            sumTried == ls.ret # None                       \* if summarizer:
            m == summarizer_tier(sm, MaxPoints)
        IN  IF sumTried /\ m.ok
            THEN [ret |-> m.out, raised |-> FALSE, P |-> ls.P,
                  tried |-> t1 \o <<"summarizer">>, failed |-> f1,
                  unavailable |-> u1, src |-> "summarizer"]
            ELSE [ret |-> PyStr(naive_key_points(text, MaxPoints)),
                  raised |-> FALSE, P |-> ls.P,
                  tried |-> t1 \o (IF sumTried THEN <<"summarizer">> ELSE <<>>)
                              \o <<"naive">>,
                  failed |-> f1 \cup (IF sumTried THEN {"summarizer"} ELSE {}),
                  unavailable |-> u1 \cup (IF sumTried THEN {} ELSE {"summarizer"}),
                  src |-> "naive"]

---------------------------------------------------------------------------
(* HTTP requests.                                                          *)

(* A JSON value as the handler sees it: its type, whether Python treats it *)
(* as true, and its characters when it is a string. "missing" is what      *)
(* dict.get returns for an absent key (None).                              *)
JMissing == [kind |-> "missing", truthy |-> FALSE, s |-> <<>>]
JNull == [kind |-> "null", truthy |-> FALSE, s |-> <<>>]
JNum(n) == [kind |-> "num", truthy |-> n # 0, s |-> <<>>]
JList == [kind |-> "list", truthy |-> TRUE, s |-> <<>>]
JStr(s) == [kind |-> "str", truthy |-> s # <<>>, s |-> s]

TextA == <<" ", "E", "n", "a", "k", ".", " ", " ", "a", "s", "i", "n", "!", "\n", "o", "k", " ">>
TextB == <<"L", "E", "Z", "A", "T">>
Blank == <<" ", "\t">>

(* A request body: absent, not JSON, or JSON whose top-level value has a   *)
(* type and a truth value; a JSON object carries review_text and content.  *)
BodyOf(how, type, truthy, rt, ct) ==
    [how |-> how, type |-> type, truthy |-> truthy, review_text |-> rt, content |-> ct]
Dict(rt, ct) == BodyOf("json", "dict", TRUE, rt, ct)

InvalidBodies ==
    { BodyOf("absent", "none", FALSE, JMissing, JMissing),
      BodyOf("notjson", "none", FALSE, JMissing, JMissing),
      BodyOf("json", "null", FALSE, JMissing, JMissing),
      BodyOf("json", "num", FALSE, JMissing, JMissing),
      BodyOf("json", "list", FALSE, JMissing, JMissing),
      BodyOf("json", "dict", FALSE, JMissing, JMissing),
      BodyOf("json", "list", TRUE, JMissing, JMissing),
      BodyOf("json", "str", TRUE, JMissing, JMissing),
      BodyOf("json", "num", TRUE, JMissing, JMissing),
      Dict(JMissing, JMissing),
      Dict(JNull, JMissing),
      Dict(JNum(0), JMissing),
      Dict(JNum(7), JMissing),
      Dict(JList, JMissing),
      Dict(JStr(<<>>), JMissing),
      Dict(JStr(Blank), JMissing),
      Dict(JMissing, JStr(Blank)),
      Dict(JMissing, JNum(7)) }

(* Bodies that carry a usable string in one field and something else in    *)
(* the other.                                                              *)
MaskedBodies ==
    { Dict(JStr(Blank), JStr(TextA)),
      Dict(JNum(7), JStr(TextB)) }

ValidBodies ==
    { Dict(JStr(TextA), JMissing),
      Dict(JStr(TextB), JMissing),
      Dict(JMissing, JStr(TextA)),
      Dict(JNum(0), JStr(TextB)),
      Dict(JStr(TextA), JStr(Blank)) }

Bodies == InvalidBodies \cup MaskedBodies \cup ValidBodies

\* a or b
py_or(a, b) == IF a.truthy THEN a ELSE b

\* request.get_json(silent=True) or {}
get_payload(body) ==
    IF body.how # "json" \/ ~body.truthy
    THEN [isDict |-> TRUE, review_text |-> JMissing, content |-> JMissing]
    ELSE [isDict |-> body.type = "dict", review_text |-> body.review_text,
          content |-> body.content]

\* the first four lines of the try block of analyze_review:
\* "raise" (payload.get on a non-dict), "reject" (400) or "accept" with the text
read_review_text(body) ==
    LET payload == get_payload(body)
        review_text == py_or(py_or(payload.review_text, payload.content), JStr(<<>>))
    IN  IF ~payload.isDict THEN [outcome |-> "raise", text |-> <<>>]
        ELSE IF review_text.kind # "str" \/ strip(review_text.s) = <<>>
        THEN [outcome |-> "reject", text |-> <<>>]
        ELSE [outcome |-> "accept", text |-> review_text.s]

(* The reviews table. A row is [id, review_text, sentiment, confidence,    *)
(* key_points, created_at]; created_at is the clock reading at INSERT.     *)
Row(id, text, sentiment, confidence, key_points, now) ==
    [id |-> id, review_text |-> text, sentiment |-> sentiment,
     confidence |-> confidence, key_points |-> key_points, created_at |-> now]

NoSent == [called |-> FALSE, label |-> "", confidence |-> <<>>, raised |-> FALSE]
NoKp == [called |-> FALSE, ret |-> PyNone, raised |-> FALSE, tried |-> <<>>,
         failed |-> {}, unavailable |-> {}, src |-> "", gen |-> ""]
SentView(x) == [called |-> TRUE, label |-> x.label, confidence |-> x.confidence,
                raised |-> x.raised]
KpView(k, gen) ==
    [called |-> TRUE, ret |-> k.ret, raised |-> k.raised, tried |-> k.tried,
     failed |-> k.failed, unavailable |-> k.unavailable, src |-> k.src,
     gen |-> IF \E i \in 1..Len(k.tried) : k.tried[i] = "gemini" THEN gen.kind ELSE ""]

(* Outcomes of the database calls of analyze_review:                       *)
(*   ok - all return; commit_raises - db.commit() raises, nothing stored;  *)
(*   refresh_raises - db.commit() stored the row, db.refresh(new) raises.  *)
DbOutcomes == {"ok", "commit_raises", "refresh_raises"}

(* POST /api/analyze-review. e: what the environment does during the call  *)
(* (constructors, model answers, database); now: datetime.utcnow() at the  *)
(* INSERT. events lists the steps taken, in order.                         *)
analyze_review(P, rows, body, e, now) ==
    LET rd == read_review_text(body)
        sn == analyze_sentiment(rd.text, P, e.sCtor, e.score)
        kp == extract_key_points(rd.text, sn.P, e.gCtor, e.gen, e.mCtor, e.summ)
        new == Row(Len(rows) + 1, strip(rd.text), sn.label, sn.confidence,
                   kp.ret.s, now)
    IN  IF rd.outcome = "raise"
        THEN [P |-> P, rows |-> rows, status |-> 500, data |-> <<>>, events |-> <<>>,
              sent |-> NoSent, kp |-> NoKp, db |-> ""]
        ELSE IF rd.outcome = "reject"
        THEN [P |-> P, rows |-> rows, status |-> 400, data |-> <<>>, events |-> <<>>,
              sent |-> NoSent, kp |-> NoKp, db |-> ""]
        ELSE IF sn.raised
        THEN [P |-> sn.P, rows |-> rows, status |-> 500, data |-> <<>>,
              events |-> <<"sentiment">>, sent |-> SentView(sn), kp |-> NoKp,
              db |-> ""]
        ELSE IF kp.raised
        THEN [P |-> kp.P, rows |-> rows, status |-> 500, data |-> <<>>,
              events |-> <<"sentiment", "key_points">>,
              sent |-> SentView(sn), kp |-> KpView(kp, e.gen), db |-> ""]
        ELSE IF e.db = "commit_raises"
        THEN [P |-> kp.P, rows |-> rows, status |-> 500, data |-> <<>>,
              events |-> <<"sentiment", "key_points">>,
              sent |-> SentView(sn), kp |-> KpView(kp, e.gen), db |-> e.db]
        ELSE IF e.db = "refresh_raises"
        THEN [P |-> kp.P, rows |-> Append(rows, new), status |-> 500, data |-> <<>>,
              events |-> <<"sentiment", "key_points", "commit">>,
              sent |-> SentView(sn), kp |-> KpView(kp, e.gen), db |-> e.db]
        ELSE [P |-> kp.P, rows |-> Append(rows, new), status |-> 200, data |-> <<new>>,
              events |-> <<"sentiment", "key_points", "commit">>,
              sent |-> SentView(sn), kp |-> KpView(kp, e.gen), db |-> e.db]

\* the sequences holding every row of rows exactly once
RowOrders(rows) ==
    { [i \in 1..Len(rows) |-> rows[f[i]]] :
        f \in { g \in [1..Len(rows) -> 1..Len(rows)] :
                  \A i, j \in 1..Len(rows) : i # j => g[i] # g[j] } }

\* a query without ORDER BY may return the rows in any order
query_unordered(rows) == RowOrders(rows)

(* db.query(Review).order_by(Review.created_at.desc()).all(): the rows by  *)
(* created_at, greatest first; rows with equal created_at come in an order *)
(* the database chooses.                                                   *)
query_order_by_created_at_desc(rows) ==
    { r \in RowOrders(rows) :
        \A i \in 1..(Len(r) - 1) : r[i].created_at >= r[i + 1].created_at }

\* GET /api/reviews, given the order the database returned and whether it raised
get_reviews(ordered, dbOk) ==
    IF dbOk THEN [status |-> 200, data |-> ordered]
    ELSE [status |-> 500, data |-> <<>>]

\* GET /
home == [status |-> 200, data |-> <<>>]

---------------------------------------------------------------------------
(* The process: initial state and the effect of its operations.            *)

KeyValues == {PyNone, PyStr(<<>>), PyStr(<<"A", "I", "z", "a">>)}

CurP == [key |-> GEMINI_API_KEY, tInst |-> transformersInstalled,
         gInst |-> genaiInstalled, sent |-> _sentiment_model,
         summ |-> _summary_model, gem |-> _gemini_client,
         runs |-> ctorRuns, oks |-> ctorOks, ops |-> remoteOps]

NoBody == BodyOf("absent", "none", FALSE, JMissing, JMissing)
NoLast == [op |-> "none", body |-> NoBody, events |-> <<>>, db |-> ""]
NoLoad == [adapter |-> "", ret |-> None, ran |-> FALSE]
NoResp == [status |-> 0, data |-> <<>>]

LoadIdle ==
    /\ pc = <<>> /\ tAdapter = <<>> /\ tRet = <<>>
    /\ lockHolder = 0 /\ building = {} /\ loadCalls = 0
HeurIdle == hText = <<>> /\ hOut = NoSent

ProcInit ==
    /\ GEMINI_API_KEY \in KeyValues
    /\ transformersInstalled \in BOOLEAN
    /\ genaiInstalled \in BOOLEAN
    /\ _sentiment_model = None
    /\ _summary_model = None
    /\ _gemini_client = None
    /\ reviews = <<>>
    /\ clock = 0

HistInit ==
    /\ calls = 0
    /\ okCount = 0
    /\ ctorRuns = [a \in Adapters |-> 0]
    /\ ctorOks = [a \in Adapters |-> 0]
    /\ remoteOps = [imports |-> 0, configures |-> 0, generates |-> 0]
    /\ submitted = <<>>
    /\ last = NoLast
    /\ sentOut = NoSent
    /\ kpOut = NoKp
    /\ loadOut = NoLoad
    /\ resp = NoResp

\* the adapter state and its counters after an operation that ends in P
SetP(P) ==
    /\ _sentiment_model' = P.sent
    /\ _summary_model' = P.summ
    /\ _gemini_client' = P.gem
    /\ ctorRuns' = P.runs
    /\ ctorOks' = P.oks
    /\ remoteOps' = P.ops
    /\ UNCHANGED <<GEMINI_API_KEY, transformersInstalled, genaiInstalled>>

(* The choices of the environment an operation can observe: the            *)
(* constructor of an adapter that is loaded, not installed or not          *)
(* configured is never run, and a model that is not there never answers,   *)
(* so those choices are fixed instead of enumerated.                       *)
Keyed == ~falsy_str(GEMINI_API_KEY)
SentCtorChoices == IF transformersInstalled /\ _sentiment_model = None
                   THEN BOOLEAN ELSE {TRUE}
ScoreChoices(sCtor) == IF transformersInstalled /\ (_sentiment_model # None \/ sCtor)
                       THEN ScoreResults ELSE {ScoreRaise}
GemCtorChoices == IF Keyed /\ genaiInstalled /\ _gemini_client = None
                  THEN BOOLEAN ELSE {TRUE}
GenChoices(gCtor) == IF Keyed /\ genaiInstalled /\ (_gemini_client # None \/ gCtor)
                     THEN GenResults ELSE {GenRaise}
SummCtorChoices == IF transformersInstalled /\ _summary_model = None
                   THEN BOOLEAN ELSE {TRUE}
SummChoices(mCtor) == IF transformersInstalled /\ (_summary_model # None \/ mCtor)
                      THEN SummResults ELSE {SummRaise}

---------------------------------------------------------------------------
(* Spec, SpecStore: the process serving one request after another.         *)

\* the effect of one analyze-review call on the state
Handled(body, r) ==
    /\ SetP(r.P)
    /\ reviews' = r.rows
    /\ clock' = IF Len(r.rows) > Len(reviews) THEN r.rows[Len(r.rows)].created_at
                ELSE clock
    /\ submitted' = IF Len(r.rows) > Len(reviews)
                    THEN Append(submitted, read_review_text(body).text)
                    ELSE submitted
    /\ okCount' = IF r.status = 200 THEN okCount + 1 ELSE okCount
    /\ calls' = calls + 1
    /\ last' = [op |-> "analyze", body |-> body, events |-> r.events, db |-> r.db]
    /\ sentOut' = r.sent
    /\ kpOut' = r.kp
    /\ resp' = [status |-> r.status, data |-> r.data]
    /\ UNCHANGED <<loadOut, loadVars, heurVars>>

\* POST /api/analyze-review with any body and any behaviour of the collaborators
AnalyzeReview(n) ==
    /\ calls < n
    /\ \E body \in Bodies :
         LET accept == read_review_text(body).outcome = "accept"
         IN
         \E sCtor \in IF accept THEN SentCtorChoices ELSE {TRUE} :
         \E score \in IF accept THEN ScoreChoices(sCtor) ELSE {ScoreRaise} :
         \E gCtor \in IF accept THEN GemCtorChoices ELSE {TRUE} :
         \E gen \in IF accept THEN GenChoices(gCtor) ELSE {GenRaise} :
         \E mCtor \in IF accept THEN SummCtorChoices ELSE {TRUE} :
         \E sm \in IF accept THEN SummChoices(mCtor) ELSE {SummRaise} :
         \E db \in IF accept THEN DbOutcomes ELSE {"ok"} :
         \E now \in IF accept /\ db # "commit_raises" THEN {clock, clock + 1}
                    ELSE {clock} :
            LET e == [sCtor |-> sCtor, score |-> score, gCtor |-> gCtor,
                      gen |-> gen, mCtor |-> mCtor, summ |-> sm, db |-> db]
            IN  Handled(body, analyze_review(CurP, reviews, body, e, now))

\* GET /api/reviews
ListReviews(n) ==
    /\ calls < n
    /\ \E dbOk \in BOOLEAN :
       \E ordered \in IF dbOk THEN query_order_by_created_at_desc(reviews) ELSE {<<>>} :
         resp' = get_reviews(ordered, dbOk)
    /\ last' = [NoLast EXCEPT !.op = "list"]
    /\ calls' = calls + 1
    /\ UNCHANGED <<procVars, okCount, ctorRuns, ctorOks, remoteOps, submitted>>
    /\ UNCHANGED <<sentOut, kpOut, loadOut, loadVars, heurVars>>

\* GET /
Home(n) ==
    /\ calls < n
    /\ resp' = home
    /\ last' = [NoLast EXCEPT !.op = "home"]
    /\ calls' = calls + 1
    /\ UNCHANGED <<procVars, okCount, ctorRuns, ctorOks, remoteOps, submitted>>
    /\ UNCHANGED <<sentOut, kpOut, loadOut, loadVars, heurVars>>

Init == ProcInit /\ HistInit /\ LoadIdle /\ HeurIdle

Next == AnalyzeReview(MaxCalls) \/ ListReviews(MaxCalls) \/ Home(MaxCalls)

Spec == Init /\ [][Next]_vars

(* SpecStore: the same process deployed without any advanced adapter       *)
(* (no API key, neither package installed), so that every analysis is the  *)
(* heuristic classifier and the naive split; longer runs of requests.      *)
StoreInit ==
    /\ Init
    /\ falsy_str(GEMINI_API_KEY)
    /\ ~transformersInstalled
    /\ ~genaiInstalled

StoreNext == AnalyzeReview(MaxStoreCalls) \/ ListReviews(MaxStoreCalls)
                \/ Home(MaxStoreCalls)

SpecStore == StoreInit /\ [][StoreNext]_vars

---------------------------------------------------------------------------
(* SpecPipe: the loaders and the two halves of the analysis pipeline       *)
(* called one after another, in any order, in one process with any         *)
(* deployment and any behaviour of the collaborators.                      *)

PipeTexts == {TextA, TextB, Blank}

PipeDone(op) ==
    /\ calls' = calls + 1
    /\ last' = [NoLast EXCEPT !.op = op]
    /\ UNCHANGED <<reviews, clock, okCount, submitted, resp, loadVars, heurVars>>

CallLoadSentiment ==
    /\ calls < MaxPipeCalls
    /\ \E ctorOk \in SentCtorChoices :
         LET r == load_transformers_sentiment(CurP, ctorOk)
         IN  /\ SetP(r.P)
             /\ loadOut' = [adapter |-> "sentiment", ret |-> r.ret,
                            ran |-> r.P.runs["sentiment"] > ctorRuns["sentiment"]]
    /\ sentOut' = NoSent /\ kpOut' = NoKp
    /\ PipeDone("load")

CallLoadSummarizer ==
    /\ calls < MaxPipeCalls
    /\ \E ctorOk \in SummCtorChoices :
         LET r == load_transformers_summarizer(CurP, ctorOk)
         IN  /\ SetP(r.P)
             /\ loadOut' = [adapter |-> "summarizer", ret |-> r.ret,
                            ran |-> r.P.runs["summarizer"] > ctorRuns["summarizer"]]
    /\ sentOut' = NoSent /\ kpOut' = NoKp
    /\ PipeDone("load")

CallLoadGemini ==
    /\ calls < MaxPipeCalls
    /\ \E ctorOk \in GemCtorChoices :
         LET r == load_gemini(CurP, ctorOk)
         IN  /\ SetP(r.P)
             /\ loadOut' = [adapter |-> "gemini", ret |-> r.ret,
                            ran |-> r.P.runs["gemini"] > ctorRuns["gemini"]]
    /\ sentOut' = NoSent /\ kpOut' = NoKp
    /\ PipeDone("load")

CallAnalyzeSentiment ==
    /\ calls < MaxPipeCalls
    /\ \E text \in PipeTexts :
       \E sCtor \in SentCtorChoices :
       \E score \in ScoreChoices(sCtor) :
         LET r == analyze_sentiment(text, CurP, sCtor, score)
         IN  /\ SetP(r.P)
             /\ sentOut' = SentView(r)
    /\ kpOut' = NoKp /\ loadOut' = NoLoad
    /\ PipeDone("sentiment")

CallExtractKeyPoints ==
    /\ calls < MaxPipeCalls
    /\ \E text \in PipeTexts :
       \E gCtor \in GemCtorChoices :
       \E gen \in GenChoices(gCtor) :
       \E mCtor \in SummCtorChoices :
       \E sm \in SummChoices(mCtor) :
         LET r == extract_key_points(text, CurP, gCtor, gen, mCtor, sm)
         IN  /\ SetP(r.P)
             /\ kpOut' = KpView(r, gen)
    /\ sentOut' = NoSent /\ loadOut' = NoLoad
    /\ PipeDone("key_points")

PipeNext == CallLoadSentiment \/ CallLoadSummarizer \/ CallLoadGemini
               \/ CallAnalyzeSentiment \/ CallExtractKeyPoints

SpecPipe == Init /\ [][PipeNext]_vars

---------------------------------------------------------------------------
(* Properties of the pipeline (SpecPipe).                                  *)

Labels == {"positive", "negative", "neutral"}

Model(a) == IF a = "sentiment" THEN _sentiment_model
            ELSE IF a = "summarizer" THEN _summary_model
            ELSE _gemini_client

\* the loader of adapter a gets past its import (and credential) checks
Loadable(a) == IF a = "gemini" THEN Keyed /\ genaiInstalled ELSE transformersInstalled

Range(f) == {f[i] : i \in DOMAIN f}

\* C2: analyze_sentiment never raises and returns one of the three labels,
\* whatever the classifier does (not installed, constructor failing, loaded,
\* scoring raising, any label or score in the answer).
C2_SentimentTotal ==
    sentOut.called => (~sentOut.raised /\ sentOut.label \in Labels)

\* C2 witness: the classifier was loaded, its answer was unusable, and the call
\* still returned a label through the heuristic.
C2_Witness ==
    /\ sentOut.called
    /\ _sentiment_model # None
    /\ sentOut.confidence = FALLBACK
    /\ sentOut.label \in Labels

\* the rows the handler stores carry the label analyze_sentiment returned
StoredSentimentInLabels ==
    \A i \in DOMAIN reviews : reviews[i].sentiment \in Labels

Priority == <<"gemini", "summarizer", "naive">>
Rank(t) == CHOOSE i \in 1..Len(Priority) : Priority[i] = t

\* C4: extract_key_points attempts its tiers in priority order, each at most
\* once, a tier only when every tier before it was unavailable or raised; it
\* returns the value of the first tier that did not raise, never raises and
\* returns a string.
C4_TiersInOrder ==
    kpOut.called =>
        LET tried == kpOut.tried
            n == Len(tried)
        IN  /\ ~kpOut.raised
            /\ ~kpOut.ret.none
            /\ n >= 1
            /\ Range(tried) \subseteq Range(Priority)
            /\ \A i, j \in 1..n : i < j => Rank(tried[i]) < Rank(tried[j])
            /\ \A i \in 1..n : \A h \in Range(Priority) :
                 Rank(h) < Rank(tried[i]) =>
                    \/ h \in kpOut.unavailable /\ h \notin Range(tried)
                    \/ h \in kpOut.failed /\ h \in Range(tried)
            /\ kpOut.src = tried[n]
            /\ kpOut.src \notin kpOut.failed
            /\ kpOut.failed \subseteq Range(tried)

\* C4 witness: the remote tier raised, the summarizer raised, the naive split answered.
C4_Witness ==
    /\ kpOut.called
    /\ kpOut.tried = <<"gemini", "summarizer", "naive">>
    /\ kpOut.failed = {"gemini", "summarizer"}
    /\ kpOut.src = "naive"

GenFailures == {"raise", "text_raises", "text_none", "no_text"}

\* C8 as claimed: on a network error, a malformed response or a response
\* without a text field the remote tier fails over to the next tier and
\* nothing of the remote response is returned.
C8_EveryRemoteFailureFallsThrough ==
    (kpOut.called /\ kpOut.gen \in GenFailures) =>
        /\ "gemini" \in kpOut.failed
        /\ kpOut.src \in {"summarizer", "naive"}

\* C8 amended: a remote call that raises, a text accessor that raises and a
\* text that is not a string are caught and fall through to the next tier;
\* a response without a text attribute is not a failure: its str(), trimmed,
\* is returned as the key points and no other tier is attempted.
C8_RaisingFailuresFallThrough ==
    kpOut.called =>
        /\ kpOut.gen \in {"raise", "text_raises", "text_none"} =>
              /\ "gemini" \in kpOut.failed
              /\ kpOut.src \in {"summarizer", "naive"}
              /\ Len(kpOut.tried) >= 2
              /\ ~kpOut.raised
        /\ kpOut.gen = "no_text" =>
              /\ kpOut.src = "gemini"
              /\ kpOut.tried = <<"gemini">>
              /\ \E g \in GenResults : g.kind = "no_text" /\ kpOut.ret = PyStr(strip(g.s))

\* C8 witness: the response had no text attribute and its str() was returned.
C8_Witness ==
    /\ kpOut.called
    /\ kpOut.gen = "no_text"
    /\ kpOut.src = "gemini"
    /\ kpOut.ret.s # <<>>

\* C10: without an API credential the remote client is never imported,
\* configured or called, the cached client stays None, load_gemini returns
\* None and extract_key_points never attempts the remote tier.
C10_NoKeyNoRemote ==
    falsy_str(GEMINI_API_KEY) =>
        /\ remoteOps = [imports |-> 0, configures |-> 0, generates |-> 0]
        /\ ctorRuns["gemini"] = 0
        /\ _gemini_client = None
        /\ loadOut.adapter = "gemini" => (loadOut.ret = None /\ ~loadOut.ran)
        /\ kpOut.called => ("gemini" \notin Range(kpOut.tried)
                            /\ "gemini" \in kpOut.unavailable /\ ~kpOut.raised)

\* C10 witness: the package is installed, no credential is set, and both the
\* loader and extract_key_points have been called.
C10_Witness ==
    /\ falsy_str(GEMINI_API_KEY)
    /\ genaiInstalled
    /\ kpOut.called
    /\ calls >= 2

---------------------------------------------------------------------------
(* Properties of the routes (Spec, SpecStore).                             *)

\* a JSON value that is a string with a non-whitespace character
IsText(v) == v.kind = "str" /\ \E i \in 1..Len(v.s) : v.s[i] \notin Whitespace

\* the request body is a JSON object whose review_text or content is such a string
CarriesText(body) ==
    /\ body.how = "json"
    /\ body.type = "dict"
    /\ IsText(body.review_text) \/ IsText(body.content)

\* C1 as claimed: a request that carries no usable text (body missing, not
\* JSON, not an object, field absent, not a string, empty or blank) is
\* answered with the client error 400, and neither the pipeline nor the
\* store is touched.
C1_InvalidInputIsClientError ==
    (last.op = "analyze" /\ ~CarriesText(last.body)) =>
        /\ resp.status = 400
        /\ last.events = <<>>
        /\ reviews = <<>>

\* C5 as claimed: a record is stored iff the request was answered with
\* success; a request answered with an error leaves no record behind.
C5_StoredIffSuccess ==
    /\ okCount = Len(reviews)
    /\ (last.op = "analyze" /\ resp.status # 200) => "commit" \notin Range(last.events)

\* y is x without its leading and trailing whitespace
IsTrimOf(y, x) ==
    \E i, j \in 0..Len(x) :
        /\ i + j <= Len(x)
        /\ y = SubSeq(x, i + 1, Len(x) - j)
        /\ \A k \in 1..i : x[k] \in Whitespace
        /\ \A k \in (Len(x) - j + 1)..Len(x) : x[k] \in Whitespace
        /\ y # <<>> => (y[1] \notin Whitespace /\ y[Len(y)] \notin Whitespace)

\* a successful listing returns every stored row exactly once
ListsEveryRowOnce ==
    /\ Len(resp.data) = Len(reviews)
    /\ \A k \in 1..Len(reviews) :
         Cardinality({i \in 1..Len(resp.data) : resp.data[i] = reviews[k]}) = 1

\* rows get ids in submission order; stored text is the trimmed submitted text;
\* created_at never decreases from one submission to the next
RowsAsSubmitted ==
    /\ Len(submitted) = Len(reviews)
    /\ \A k \in 1..Len(reviews) :
         /\ reviews[k].id = k
         /\ IsTrimOf(reviews[k].review_text, submitted[k])
    /\ \A k \in 1..(Len(reviews) - 1) :
         reviews[k].created_at <= reviews[k + 1].created_at

\* C6 as claimed: the listing returns every record exactly once with the one
\* submitted later always before the one submitted earlier, and each stored
\* review_text is the trimmed submitted text.
C6_LaterSubmittedFirst ==
    /\ RowsAsSubmitted
    /\ (last.op = "list" /\ resp.status = 200) =>
          /\ ListsEveryRowOnce
          /\ \A i, j \in 1..Len(resp.data) :
               i < j => resp.data[i].id > resp.data[j].id

\* C6 amended: the listing returns every record exactly once, ordered by
\* created_at, greatest first, so a record with a strictly later created_at
\* precedes one with an earlier created_at; records with equal created_at
\* come in either order; each stored review_text is the trimmed submitted text.
C6_NewestCreatedAtFirst ==
    /\ RowsAsSubmitted
    /\ (last.op = "list" /\ resp.status = 200) =>
          /\ ListsEveryRowOnce
          /\ \A i, j \in 1..Len(resp.data) :
               i < j => resp.data[i].created_at >= resp.data[j].created_at
          /\ \A i, j \in 1..Len(resp.data) :
               resp.data[i].created_at > resp.data[j].created_at => i < j

\* C6 witness: two records with the same created_at are listed with the one
\* submitted earlier first, and a stored text differs from the submitted one.
C6_Witness ==
    /\ last.op = "list"
    /\ resp.status = 200
    /\ Len(resp.data) = 2
    /\ resp.data[1].id < resp.data[2].id
    /\ resp.data[1].created_at = resp.data[2].created_at
    /\ \E k \in 1..Len(reviews) : reviews[k].review_text # submitted[k]

---------------------------------------------------------------------------
(* SpecHeur: the heuristic classifier on a bounded set of texts, called    *)
(* directly and through analyze_sentiment with the classifier unavailable. *)

HeurChunks ==
    { <<"e", "n", "a", "k">>,
      <<"E", "N", "A", "K", " ">>,
      <<"a", "s", "i", "n">>,
      <<"L", "a", "m", "b", "a", "t">>,
      <<" ">>,
      <<"o", "k", ".">> }

ExampleText ==
    <<"M", "a", "k", "a", "n", "a", "n", " ", "e", "n", "a", "k", " ",
      "t", "a", "p", "i", " ", "p", "e", "l", "a", "y", "a", "n", "a", "n", " ",
      "l", "a", "m", "b", "a", "t">>

RECURSIVE ChunkTexts(_)
ChunkTexts(n) ==
    IF n = 0 THEN {<<>>}
    ELSE LET T == ChunkTexts(n - 1)
         IN  T \cup {t \o c : t \in T, c \in HeurChunks}

HeurTexts == ChunkTexts(MaxChunks) \cup {ExampleText}

HeurInit ==
    /\ ProcInit
    /\ falsy_str(GEMINI_API_KEY)
    /\ ~genaiInstalled
    /\ HistInit
    /\ LoadIdle
    /\ hText \in HeurTexts
    /\ hOut = NoSent

HeurDone(op) ==
    /\ calls' = calls + 1
    /\ last' = [NoLast EXCEPT !.op = op]
    /\ UNCHANGED <<reviews, clock, okCount, submitted, resp, sentOut, kpOut, loadOut>>
    /\ UNCHANGED <<loadVars, hText>>

\* fallback_sentiment(hText)
CallFallbackSentiment ==
    /\ ~hOut.called
    /\ hOut' = SentView(fallback_sentiment(hText))
    /\ SetP(CurP)
    /\ HeurDone("fallback")

\* analyze_sentiment(hText) when the classifier cannot be imported or built
CallSentimentUnavailable ==
    /\ ~hOut.called
    /\ LET r == analyze_sentiment(hText, CurP, FALSE, ScoreRaise)
       IN  /\ SetP(r.P)
           /\ hOut' = SentView(r)
    /\ HeurDone("sentiment")

HeurNext == CallFallbackSentiment \/ CallSentimentUnavailable

SpecHeur == HeurInit /\ [][HeurNext]_vars

\* w occurs in s at position i
OccursAt(w, s, i) == i + Len(w) - 1 <= Len(s) /\ SubSeq(s, i, i + Len(w) - 1) = w

\* the indicators of words that occur in s at least once
Present(words, s) == {w \in words : \E i \in 1..Len(s) : OccursAt(w, s, i)}

\* the number of occurrences in s of the indicators of words
Occurrences(words, s) ==
    Cardinality({wi \in words \X (1..Len(s)) : OccursAt(wi[1], s, wi[2])})

Verdict(p, n) == IF p > n THEN "positive" ELSE IF n > p THEN "negative" ELSE "neutral"

\* C9 as claimed: the label compares the numbers of occurrences of positive
\* and of negative indicators in the lowercased text; confidence is 'fallback'.
C9_ComparesOccurrences ==
    hOut.called =>
        /\ hOut.confidence = FALLBACK
        /\ hOut.label = Verdict(Occurrences(_positive_words, lower(hText)),
                                Occurrences(_negative_words, lower(hText)))

\* C9 amended: the label compares the numbers of distinct positive and of
\* distinct negative indicators that occur in the lowercased text at least
\* once (a repeated indicator counts once); tie is neutral; confidence is
\* 'fallback'; 'Makanan enak tapi pelayanan lambat' is (neutral, fallback).
C9_ComparesDistinctIndicators ==
    hOut.called =>
        /\ ~hOut.raised
        /\ hOut.confidence = FALLBACK
        /\ hOut.label = Verdict(Cardinality(Present(_positive_words, lower(hText))),
                                Cardinality(Present(_negative_words, lower(hText))))
        /\ hText = ExampleText => hOut.label = "neutral"

\* C9 witness: through analyze_sentiment with the classifier unavailable, a
\* text repeating a positive indicator next to one negative indicator is
\* neutral although it has more positive occurrences.
C9_Witness ==
    /\ hOut.called
    /\ last.op = "sentiment"
    /\ hOut.label = "neutral"
    /\ Occurrences(_positive_words, lower(hText))
          > Occurrences(_negative_words, lower(hText))
    /\ Present(_negative_words, lower(hText)) # {}

---------------------------------------------------------------------------
(* SpecLoad: threads inside the three loaders, one step per statement that *)
(* touches shared state. pc[t] is the position of thread t:                *)
(*   idle -> start -> lock -> check -> (ctor ->) release -> return -> idle *)
(* lockHolder is the thread holding _model_lock (0: none); building holds, *)
(* per running constructor, its thread, adapter and the object it builds.  *)

Threads == 1..NumThreads

NoRet == [done |-> FALSE, val |-> None]

LoadInit ==
    /\ ProcInit
    /\ HistInit
    /\ HeurIdle
    /\ pc = [t \in Threads |-> "idle"]
    /\ tAdapter = [t \in Threads |-> ""]
    /\ tRet = [t \in Threads |-> NoRet]
    /\ lockHolder = 0
    /\ building = {}
    /\ loadCalls = 0

LoadFrame ==
    UNCHANGED <<GEMINI_API_KEY, transformersInstalled, genaiInstalled, reviews, clock,
                calls, okCount, submitted, last, sentOut, kpOut, loadOut, resp, heurVars>>

SetModel(a, v) ==
    /\ _sentiment_model' = IF a = "sentiment" THEN v ELSE _sentiment_model
    /\ _summary_model' = IF a = "summarizer" THEN v ELSE _summary_model
    /\ _gemini_client' = IF a = "gemini" THEN v ELSE _gemini_client

Installed(a) == IF a = "gemini" THEN genaiInstalled ELSE transformersInstalled

\* a lock that is never taken
LockIgnored == TRUE

\* _model_lock can be acquired
LockFree == lockHolder = 0

\* thread t calls the loader of some adapter
T_Call(t) ==
    /\ pc[t] = "idle"
    /\ loadCalls < MaxLoadCalls
    /\ \E a \in Adapters : tAdapter' = [tAdapter EXCEPT ![t] = a]
    /\ pc' = [pc EXCEPT ![t] = "start"]
    /\ tRet' = [tRet EXCEPT ![t] = NoRet]
    /\ loadCalls' = loadCalls + 1
    /\ UNCHANGED <<_sentiment_model, _summary_model, _gemini_client, ctorRuns, ctorOks,
                   remoteOps, lockHolder, building>>
    /\ LoadFrame

\* the statements before the lock: the credential check of load_gemini and
\* the import; either may return None
T_Start(t) ==
    /\ pc[t] = "start"
    /\ LET a == tAdapter[t]
           keyless == a = "gemini" /\ falsy_str(GEMINI_API_KEY)
       IN  /\ remoteOps' = IF a = "gemini" /\ ~keyless
                           THEN [remoteOps EXCEPT !.imports = @ + 1] ELSE remoteOps
           /\ IF keyless \/ ~Installed(a)
              THEN /\ pc' = [pc EXCEPT ![t] = "idle"]
                   /\ tRet' = [tRet EXCEPT ![t] = [done |-> TRUE, val |-> None]]
              ELSE /\ pc' = [pc EXCEPT ![t] = "lock"]
                   /\ tRet' = tRet
    /\ UNCHANGED <<_sentiment_model, _summary_model, _gemini_client, ctorRuns, ctorOks,
                   tAdapter, lockHolder, building, loadCalls>>
    /\ LoadFrame

\* with _model_lock: (enter)
T_Acquire(t) ==
    /\ pc[t] = "lock"
    /\ LockFree
    /\ lockHolder' = t
    /\ pc' = [pc EXCEPT ![t] = "check"]
    /\ UNCHANGED <<_sentiment_model, _summary_model, _gemini_client, ctorRuns, ctorOks,
                   remoteOps, tAdapter, tRet, building, loadCalls>>
    /\ LoadFrame

\* if <global> is None: the constructor starts, else the block is left
T_Check(t) ==
    /\ pc[t] = "check"
    /\ LET a == tAdapter[t]
       IN  IF Model(a) = None
           THEN /\ ctorRuns' = [ctorRuns EXCEPT ![a] = @ + 1]
                /\ building' = building \cup {[t |-> t, a |-> a, obj |-> ctorRuns[a] + 1]}
                /\ pc' = [pc EXCEPT ![t] = "ctor"]
           ELSE /\ UNCHANGED <<ctorRuns, building>>
                /\ pc' = [pc EXCEPT ![t] = "release"]
    /\ UNCHANGED <<_sentiment_model, _summary_model, _gemini_client, ctorOks,
                   remoteOps, tAdapter, tRet, lockHolder, loadCalls>>
    /\ LoadFrame

\* the constructor ends: the global is assigned the object, or None when it raised
T_Construct(t) ==
    /\ pc[t] = "ctor"
    /\ \E b \in building :
         /\ b.t = t
         /\ building' = building \ {b}
         /\ \E ctorOk \in BOOLEAN :
              /\ SetModel(b.a, IF ctorOk THEN b.obj ELSE None)
              /\ ctorOks' = IF ctorOk THEN [ctorOks EXCEPT ![b.a] = @ + 1] ELSE ctorOks
         /\ remoteOps' = IF b.a = "gemini"
                         THEN [remoteOps EXCEPT !.configures = @ + 1] ELSE remoteOps
    /\ pc' = [pc EXCEPT ![t] = "release"]
    /\ UNCHANGED <<ctorRuns, tAdapter, tRet, lockHolder, loadCalls>>
    /\ LoadFrame

\* with _model_lock: (exit)
T_Release(t) ==
    /\ pc[t] = "release"
    /\ lockHolder' = 0
    /\ pc' = [pc EXCEPT ![t] = "return"]
    /\ UNCHANGED <<_sentiment_model, _summary_model, _gemini_client, ctorRuns, ctorOks,
                   remoteOps, tAdapter, tRet, building, loadCalls>>
    /\ LoadFrame

\* return <global>
T_Return(t) ==
    /\ pc[t] = "return"
    /\ tRet' = [tRet EXCEPT ![t] = [done |-> TRUE, val |-> Model(tAdapter[t])]]
    /\ pc' = [pc EXCEPT ![t] = "idle"]
    /\ UNCHANGED <<_sentiment_model, _summary_model, _gemini_client, ctorRuns, ctorOks,
                   remoteOps, tAdapter, lockHolder, building, loadCalls>>
    /\ LoadFrame

T_Step(t) == T_Start(t) \/ T_Acquire(t) \/ T_Check(t) \/ T_Construct(t)
                \/ T_Release(t) \/ T_Return(t)

LoadNext == \E t \in Threads : T_Call(t) \/ T_Step(t)

SpecLoad == LoadInit /\ [][LoadNext]_vars

\* the scheduler runs every thread that can take a step
FairLoad == SpecLoad /\ \A t \in Threads : WF_vars(T_Step(t))

\* no two constructors of one adapter run at once, at most one constructor
\* run per adapter succeeds, a finished call returned None or the one
\* finished instance, and the lock is held exactly inside the with-block
LoadSafe ==
    /\ \A b1, b2 \in building : b1.a = b2.a => b1 = b2
    /\ \A a \in Adapters : ctorOks[a] <= 1
    /\ \A t \in Threads :
         /\ tRet[t].done /\ tRet[t].val # None =>
               /\ tRet[t].val = Model(tAdapter[t])
               /\ ctorOks[tAdapter[t]] = 1
               /\ \A b \in building : ~(b.a = tAdapter[t] /\ b.obj = tRet[t].val)
         /\ (lockHolder = t) <=> (pc[t] \in {"check", "ctor", "release"})
    /\ \A a \in Adapters : \A b \in building : ~(b.a = a /\ b.obj = Model(a))

\* C7: concurrent callers of the loaders never run the constructor of one
\* adapter twice at once nor more than once successfully, return None or the
\* one fully constructed instance, and - the lock being released on every
\* path - every call that was started returns.
C7_LoadOnceAndReturn ==
    /\ []LoadSafe
    /\ \A t \in Threads : (pc[t] # "idle") ~> (pc[t] = "idle" /\ tRet[t].done)

\* C7 witness: one thread is inside the constructor of an adapter while
\* another thread that called the same loader waits for the lock.
C7_Witness ==
    \E t1, t2 \in Threads :
        /\ pc[t1] = "ctor"
        /\ pc[t2] = "lock"
        /\ tAdapter[t1] = tAdapter[t2]
        /\ Model(tAdapter[t1]) = None

=============================================================================
